---- MODULE Spec2Model ----
(***************************************************************************)
(* Model of backend/server.js: the in-memory BLE monitoring backend.       *)
(* State: detectedDevices (a JS Map, insertion ordered), priorityDevices   *)
(* (a JS Set), notifications (an array, newest first), systemStats, the    *)
(* two setInterval timers and the wall clock.  Each HTTP handler and each  *)
(* timer callback runs to completion and is one action.                    *)
(*                                                                         *)
(* Numbers: times are integer milliseconds since process start; distances  *)
(* are integer tenths of a distance unit (1.0 is 10).  A JS value that may *)
(* be undefined is a sequence of length 0 (undefined) or 1 (the value).    *)
(***************************************************************************)
EXTENDS Integers, Sequences, FiniteSets, TLC

VARIABLES
    detectedDevices,   \* Map address -> record, as a sequence in insertion order
    priorityDevices,   \* Set of addresses
    notifications,     \* array of notifications, newest first
    systemStats,       \* [esp32LastSeen, picoLastSeen, totalScans]
    timers,            \* [sweep, health]: time at which each setInterval is next due
    now,               \* Date.now()
    res,               \* the last handler that ran and its HTTP response
    emits,             \* the socket.io events that handler emitted, in order
    sockets            \* per subscriber: connected, and the events that handler sent it

vars == <<detectedDevices, priorityDevices, notifications, systemStats, timers, now, res, emits,
          sockets>>

----------------------------------------------------------------------------
(* Program constants *)

MaxNotifications == 100
InlineThreshold == 120000
SweepThreshold == 300000
RetentionWindow == 7200000
SweepPeriod == 300000
HealthPeriod == 60000
HealthyWindow == 120000
ActiveWindow == 60000
TxPower == -59
Sentinel == -10
DefaultDistance == 50
NearThreshold == 20

----------------------------------------------------------------------------
(* Bounds of the model *)

MaxScans == 2
MaxBatch == 2
MaxTime == 300001
LogFill == 99
MaxHops == 3
MaxDistBatch == 1

----------------------------------------------------------------------------
(* JS values *)

None == <<>>
Some(v) == <<v>>

\* !x for x a number or undefined
Falsy(x) == x = None \/ x[1] = 0

\* the JSON values a request's isPriority takes; "1" is a truthy non-boolean
Truthy(flag) == flag \in {"true", "1"}

\* address of a reading whose address field is missing, and the empty string
Undefined == "undefined"
Empty == ""

\* new Date(t).toISOString(): date and time to the second, and the milliseconds
ToISOString(t) == [sec |-> t \div 1000, ms |-> t % 1000]

\* new Date(s).getTime()
GetTime(s) == s.sec * 1000 + s.ms

----------------------------------------------------------------------------
(* calculateDistanceFromRSSI, on signal strengths whose ratio is an integer >= -1 *)

RECURSIVE Pow10Tenths(_)
Pow10Tenths(ratio) == IF ratio <= -1 THEN 1 ELSE 10 * Pow10Tenths(ratio - 1)

calculateDistanceFromRSSI(rssi) ==
    IF rssi = 0 THEN Sentinel
    ELSE Pow10Tenths((TxPower - rssi) \div 20)

----------------------------------------------------------------------------
(* Map operations on a sequence of records keyed by .address *)

MapIndex(m, k) ==
    IF \E i \in 1..Len(m) : m[i].address = k
    THEN CHOOSE i \in 1..Len(m) : m[i].address = k
    ELSE 0

MapHas(m, k) == MapIndex(m, k) # 0

MapGet(m, k) == m[MapIndex(m, k)]

\* faulty variant of MapSet: an entry is added even when the key is already there
MapSetAppend(m, k, v) == Append(m, v)

MapSet(m, k, v) ==
    IF MapHas(m, k) THEN [m EXCEPT ![MapIndex(m, k)] = v] ELSE Append(m, v)

MapKeys(m) == {m[i].address : i \in 1..Len(m)}

----------------------------------------------------------------------------
(* socket.io: io.emit reaches every socket connected at that moment,       *)
(* socket.emit reaches that socket only; nothing is queued for a           *)
(* subscriber that is not connected.                                       *)

Subscribers == {"s1", "s2"}

\* io.emit(...) of every event of `events`
Broadcast(socks, events) ==
    [c \in Subscribers |->
        [socks[c] EXCEPT !.received = IF socks[c].connected THEN events ELSE <<>>]]

\* socket.emit(...) of every event of `events` on the socket of subscriber s
SendTo(socks, s, events) ==
    [c \in Subscribers |->
        [socks[c] EXCEPT !.received = IF c = s THEN events ELSE <<>>]]

----------------------------------------------------------------------------
(* POST /api/devices *)

\* req.body: devices is an array of readings, or is missing or not an array
ListBody(devices) == [isList |-> TRUE, devices |-> devices]
NotAList == [isList |-> FALSE, devices |-> <<>>]

\* a reading: an object with an address and optional distance and rssi
Reading(address, distance, rssi) ==
    [isNull |-> FALSE, address |-> address, distance |-> distance, rssi |-> rssi]

\* a reading that is not an object (null): reading its address throws
NullReading == [isNull |-> TRUE, address |-> Undefined, distance |-> None, rssi |-> None]

\* let estimatedDistance = device.distance; if (!estimatedDistance && device.rssi) ...
EstimatedDistance(device) ==
    IF Falsy(device.distance) /\ ~Falsy(device.rssi)
    THEN Some(calculateDistanceFromRSSI(device.rssi[1]))
    ELSE device.distance

\* estimatedDistance || 5.0
StoredDistance(est) == IF Falsy(est) THEN DefaultDistance ELSE est[1]

\* faulty variant of WasInRange: the bit is recomputed from every reading
WasInRangeRecomputed(m, device, est) == est # None /\ est[1] <= NearThreshold

\* existingDevice ? existingDevice.wasInRange : (estimatedDistance <= 2.0)
WasInRange(m, device, est) ==
    IF MapHas(m, device.address)
    THEN MapGet(m, device.address).wasInRange
    ELSE est # None /\ est[1] <= NearThreshold

\* faulty variant of IsPriorityOf: a new record always starts unflagged
IsPriorityOfUnflagged(pri, address) == "false"

\* isPriority: priorityDevices.has(device.address), as the JSON boolean
IsPriorityOf(pri, address) == IF address \in pri THEN "true" ELSE "false"

\* faulty variant of Upsert: a record that exists keeps its lastUpdated
UpsertKeepsLastUpdated(m, device, pri, t) ==
    LET est == EstimatedDistance(device)
    IN  MapSet(m, device.address,
               [address     |-> device.address,
                distance    |-> StoredDistance(est),
                isPriority  |-> IsPriorityOf(pri, device.address),
                lastUpdated |-> IF MapHas(m, device.address)
                                THEN MapGet(m, device.address).lastUpdated
                                ELSE ToISOString(t),
                wasInRange  |-> WasInRange(m, device, est)])

\* the body of devices.forEach for one reading
Upsert(m, device, pri, t) ==
    LET est == EstimatedDistance(device)
    IN  MapSet(m, device.address,
               [address     |-> device.address,
                distance    |-> StoredDistance(est),
                isPriority  |-> IsPriorityOf(pri, device.address),
                lastUpdated |-> ToISOString(t),
                wasInRange  |-> WasInRange(m, device, est)])

\* devices.forEach: readings before the first null one are applied, then it throws
RECURSIVE ApplyBatch(_, _, _, _)
ApplyBatch(m, devices, pri, t) ==
    IF devices = <<>> THEN [map |-> m, thrown |-> FALSE]
    ELSE IF Head(devices).isNull THEN [map |-> m, thrown |-> TRUE]
    ELSE ApplyBatch(Upsert(m, Head(devices), pri, t), Tail(devices), pri, t)

\* faulty variant of Unshift: the entry is pushed at the tail before the cut
UnshiftAtTail(log, n) ==
    LET grown == Append(log, n)
    IN  IF Len(grown) > MaxNotifications THEN SubSeq(grown, 1, MaxNotifications) ELSE grown

\* faulty variant of Unshift: the log is not cut back to its newest 100
UnshiftUnbounded(log, n) == <<n>> \o log

\* notifications.unshift(n); if (notifications.length > 100) slice(0, 100)
Unshift(log, n) ==
    LET grown == <<n>> \o log
    IN  IF Len(grown) > MaxNotifications THEN SubSeq(grown, 1, MaxNotifications) ELSE grown

TimeoutNotification(device, t) ==
    [deviceAddress |-> device.address,
     eventType     |-> "desconexion",
     received      |-> ToISOString(t),
     source        |-> "system_timeout"]

\* faulty variant of Stale: a record exactly as old as the threshold counts as stale
StaleInclusive(device, t, threshold) == GetTime(device.lastUpdated) <= t - threshold

\* device.lastUpdated is older than the threshold at time t
Stale(device, t, threshold) == GetTime(device.lastUpdated) < t - threshold

\* faulty variant of EvictInline: the priority flag of the removed record is not looked at
RECURSIVE EvictInlineNotifyAll(_, _, _, _, _)
EvictInlineNotifyAll(rest, kept, log, out, t) ==
    IF rest = <<>> THEN [map |-> kept, log |-> log, out |-> out]
    ELSE LET device == Head(rest)
             n == [deviceAddress |-> device.address, eventType |-> "desconexion",
                   received |-> [sec |-> t \div 1000, ms |-> t % 1000],
                   source |-> "system_timeout"]
         IN  IF GetTime(device.lastUpdated) < t - InlineThreshold
             THEN EvictInlineNotifyAll(Tail(rest), kept, Unshift(log, n),
                                       Append(out, [ev |-> "notification", data |-> n]), t)
             ELSE EvictInlineNotifyAll(Tail(rest), Append(kept, device), log, out, t)

\* for (let [address, device] of detectedDevices): entries are visited in
\* insertion order; `rest` are the ones not yet visited
RECURSIVE EvictInline(_, _, _, _, _)
EvictInline(rest, kept, log, out, t) ==
    IF rest = <<>> THEN [map |-> kept, log |-> log, out |-> out]
    ELSE LET device == Head(rest)
         IN  IF Stale(device, t, InlineThreshold)
             THEN IF Truthy(device.isPriority)
                  THEN LET n == TimeoutNotification(device, t)
                       IN  EvictInline(Tail(rest), kept, Unshift(log, n),
                                       Append(out, [ev |-> "notification", data |-> n]), t)
                  ELSE EvictInline(Tail(rest), kept, log, out, t)
             ELSE EvictInline(Tail(rest), Append(kept, device), log, out, t)

\* faulty variant of RejectsBody: the shape of the body is not checked
RejectsBodyNever(body) == FALSE

\* if (!devices || !Array.isArray(devices))
RejectsBody(body) == ~body.isList

\* faulty variant of DevicesEmits: the snapshot is sent first, taken before the eviction pass
DevicesEmitsSnapshotFirst(out, before, after) ==
    <<[ev |-> "devicesUpdate", data |-> before]>> \o out

\* the io.emit calls of the handler, in order: one 'notification' per timeout
\* notification (out), then 'devicesUpdate' with Array.from(detectedDevices.values())
DevicesEmits(out, before, after) ==
    Append(out, [ev |-> "devicesUpdate", data |-> after])

DevicesPost(body) ==
  /\
    IF RejectsBody(body)
    THEN /\ res' = [op |-> "POST /api/devices", status |-> 400]
         /\ emits' = <<>>
         /\ UNCHANGED <<detectedDevices, priorityDevices, notifications, systemStats, timers, now>>
    ELSE /\ systemStats.totalScans < MaxScans
         /\ systemStats' = [systemStats EXCEPT !.picoLastSeen = Some(now),
                                               !.totalScans = @ + 1]
         /\ LET applied == ApplyBatch(detectedDevices, body.devices, priorityDevices, now)
                evicted == EvictInline(applied.map, <<>>, notifications, <<>>, now)
            IN  IF applied.thrown
                THEN /\ detectedDevices' = applied.map
                     /\ res' = [op |-> "POST /api/devices", status |-> 500]
                     /\ emits' = <<>>
                     /\ UNCHANGED notifications
                ELSE /\ detectedDevices' = evicted.map
                     /\ notifications' = evicted.log
                     /\ emits' = DevicesEmits(evicted.out, applied.map, evicted.map)
                     /\ res' = [op |-> "POST /api/devices", status |-> 200,
                                totalDevices |-> Len(evicted.map)]
         /\ UNCHANGED <<priorityDevices, timers, now>>
  /\ sockets' = Broadcast(sockets, emits')

----------------------------------------------------------------------------
(* POST /api/set-priority *)

\* faulty variant of SetPriorityRecord: the record of the address is left as it was
SetPriorityRecordSkipped(m, deviceAddress, isPriority) == m

\* if (detectedDevices.has(deviceAddress)) { device.isPriority = isPriority; ... }
SetPriorityRecord(m, deviceAddress, isPriority) ==
    IF MapHas(m, deviceAddress)
    THEN MapSet(m, deviceAddress, [MapGet(m, deviceAddress) EXCEPT !.isPriority = isPriority])
    ELSE m

SetPriority(deviceAddress, isPriority) ==
  /\
    IF deviceAddress \in {Undefined, Empty}
    THEN /\ res' = [op |-> "POST /api/set-priority", status |-> 400]
         /\ emits' = <<>>
         /\ UNCHANGED <<detectedDevices, priorityDevices, notifications, systemStats, timers, now>>
    ELSE /\ priorityDevices' = IF Truthy(isPriority)
                               THEN priorityDevices \cup {deviceAddress}
                               ELSE priorityDevices \ {deviceAddress}
         /\ detectedDevices' = SetPriorityRecord(detectedDevices, deviceAddress, isPriority)
         /\ emits' = <<[ev |-> "priorityUpdate",
                        data |-> [deviceAddress |-> deviceAddress, isPriority |-> isPriority,
                                  priorityDevices |-> priorityDevices']]>>
         /\ res' = [op |-> "POST /api/set-priority", status |-> 200]
         /\ UNCHANGED <<notifications, systemStats, timers, now>>
  /\ sockets' = Broadcast(sockets, emits')

----------------------------------------------------------------------------
(* POST /api/notifications, DELETE /api/notifications *)

\* the notification object built from req.body
PostedNotification(deviceAddress, eventType, t) ==
    [deviceAddress |-> deviceAddress,
     eventType     |-> eventType,
     received      |-> ToISOString(t),
     source        |-> "esp32"]

NotificationsPost(deviceAddress, eventType) ==
    LET n == PostedNotification(deviceAddress, eventType, now)
    IN  /\ systemStats' = [systemStats EXCEPT !.esp32LastSeen = Some(now)]
        /\ notifications' = Unshift(notifications, n)
        /\ emits' = <<[ev |-> "notification", data |-> n]>>
        /\ res' = [op |-> "POST /api/notifications", status |-> 200]
        /\ sockets' = Broadcast(sockets, emits')
        /\ UNCHANGED <<detectedDevices, priorityDevices, timers, now>>

NotificationsDelete ==
    /\ notifications' = <<>>
    /\ emits' = <<[ev |-> "notificationsCleared", data |-> <<>>]>>
    /\ res' = [op |-> "DELETE /api/notifications", status |-> 200]
    /\ sockets' = Broadcast(sockets, emits')
    /\ UNCHANGED <<detectedDevices, priorityDevices, systemStats, timers, now>>

----------------------------------------------------------------------------
(* the two setInterval callbacks *)

\* systemStats.xLastSeen && (now - systemStats.xLastSeen) < window
Within(lastSeen, t, window) == lastSeen # None /\ (t - lastSeen[1]) < window

\* faulty variant of SweepDevices: the sweep removes no record
SweepDevicesKeepsAll(m, t) == m

SweepDevices(m, t) == SelectSeq(m, LAMBDA device : ~Stale(device, t, SweepThreshold))

PurgeNotifications(log, t) ==
    SelectSeq(log, LAMBDA n : GetTime(n.received) > t - RetentionWindow)

Newest20(log) == SubSeq(log, 1, IF Len(log) < 20 THEN Len(log) ELSE 20)

\* faulty variant of SweepTick: the sweep also drops the addresses it removes from the index
SweepTickDropsIndex ==
    /\ now >= timers.sweep
    /\ timers' = [timers EXCEPT !.sweep = now + SweepPeriod]
    /\ detectedDevices' = SweepDevices(detectedDevices, now)
    /\ priorityDevices' = priorityDevices \ (MapKeys(detectedDevices) \ MapKeys(detectedDevices'))
    /\ notifications' = PurgeNotifications(notifications, now)
    /\ emits' = <<[ev |-> "systemStatsUpdate",
                   data |-> [esp32Active  |-> Within(systemStats.esp32LastSeen, now, ActiveWindow),
                             picoActive   |-> Within(systemStats.picoLastSeen, now, ActiveWindow),
                             totalDevices |-> Len(detectedDevices'),
                             priorityDevices |-> Cardinality(priorityDevices')]]>>
    /\ res' = [op |-> "sweep tick", status |-> 0]
    /\ sockets' = Broadcast(sockets, emits')
    /\ UNCHANGED <<systemStats, now>>

SweepTick ==
    /\ now >= timers.sweep
    /\ timers' = [timers EXCEPT !.sweep = now + SweepPeriod]
    /\ detectedDevices' = SweepDevices(detectedDevices, now)
    /\ notifications' = PurgeNotifications(notifications, now)
    /\ emits' = (IF Len(notifications') < Len(notifications)
                 THEN <<[ev |-> "notificationsUpdate", data |-> Newest20(notifications')]>>
                 ELSE <<>>)
                \o <<[ev |-> "systemStatsUpdate",
                      data |-> [esp32Active  |-> Within(systemStats.esp32LastSeen, now, ActiveWindow),
                                picoActive   |-> Within(systemStats.picoLastSeen, now, ActiveWindow),
                                totalDevices |-> Len(detectedDevices'),
                                priorityDevices |-> Cardinality(priorityDevices)]]>>
    /\ res' = [op |-> "sweep tick", status |-> 0]
    /\ sockets' = Broadcast(sockets, emits')
    /\ UNCHANGED <<priorityDevices, systemStats, now>>

\* faulty variant of Unhealthy: the alert needs both producers to be unhealthy
UnhealthyBoth(esp32Healthy, picoHealthy) == ~esp32Healthy /\ ~picoHealthy

\* if (!esp32Healthy || !picoHealthy)
Unhealthy(esp32Healthy, picoHealthy) == ~esp32Healthy \/ ~picoHealthy

HealthTick ==
    /\ now >= timers.health
    /\ timers' = [timers EXCEPT !.health = now + HealthPeriod]
    /\ LET esp32Healthy == Within(systemStats.esp32LastSeen, now, HealthyWindow)
           picoHealthy  == Within(systemStats.picoLastSeen, now, HealthyWindow)
       IN  emits' = IF Unhealthy(esp32Healthy, picoHealthy)
                    THEN <<[ev |-> "systemAlert",
                            data |-> [esp32 |-> esp32Healthy, picoW |-> picoHealthy]]>>
                    ELSE <<>>
    /\ res' = [op |-> "health tick", status |-> 0]
    /\ sockets' = Broadcast(sockets, emits')
    /\ UNCHANGED <<detectedDevices, priorityDevices, notifications, systemStats, now>>

\* the clock advances between handlers
Advance(d, maxTime) ==
    /\ now + d <= maxTime
    /\ now' = now + d
    /\ UNCHANGED <<detectedDevices, priorityDevices, notifications, systemStats, timers, res, emits,
                   sockets>>

----------------------------------------------------------------------------
(* the read-only endpoints that report the producers' state *)

Reads(response) ==
    /\ res' = response
    /\ emits' = <<>>
    /\ sockets' = Broadcast(sockets, emits')
    /\ UNCHANGED <<detectedDevices, priorityDevices, notifications, systemStats, timers, now>>

DevicesGet ==
    Reads([op |-> "GET /api/devices", status |-> 200,
           count |-> Len(detectedDevices),
           systemStatus |->
               [esp32Active |-> Within(systemStats.esp32LastSeen, now, ActiveWindow),
                picoActive  |-> Within(systemStats.picoLastSeen, now, ActiveWindow)]])

SystemStatsGet ==
    Reads([op |-> "GET /api/system-stats", status |-> 200,
           totalDevices |-> Len(detectedDevices),
           systemHealth |->
               [esp32Active   |-> Within(systemStats.esp32LastSeen, now, ActiveWindow),
                picoActive    |-> Within(systemStats.picoLastSeen, now, ActiveWindow),
                esp32LastSeen |-> systemStats.esp32LastSeen,
                picoLastSeen  |-> systemStats.picoLastSeen]])

StatusGet ==
    Reads([op |-> "GET /api/status", status |-> 200,
           devices |-> Len(detectedDevices),
           systemHealth |->
               [esp32 |-> Within(systemStats.esp32LastSeen, now, ActiveWindow),
                picoW |-> Within(systemStats.picoLastSeen, now, ActiveWindow)]])

\* systemStats.xLastSeen ? 'active' : 'inactive'
Component(lastSeen) == IF lastSeen # None THEN "active" ELSE "inactive"

HealthGet ==
    Reads([op |-> "GET /api/health", status |-> 200,
           devices |-> Len(detectedDevices),
           systemComponents |->
               [esp32 |-> Component(systemStats.esp32LastSeen),
                picoW |-> Component(systemStats.picoLastSeen)]])

----------------------------------------------------------------------------
(* io.on('connection') and the handlers it installs on the socket *)

\* faulty variant of InitialData: the whole log is sent, not its 20 newest entries
InitialDataWholeLog(t) ==
    [ev |-> "initialData",
     data |-> [devices |-> detectedDevices,
               priorityDevices |-> priorityDevices,
               notifications |-> notifications,
               systemStats |->
                   [esp32Active |-> Within(systemStats.esp32LastSeen, t, ActiveWindow),
                    picoActive  |-> Within(systemStats.picoLastSeen, t, ActiveWindow)]]]

InitialData(t) ==
    [ev |-> "initialData",
     data |-> [devices |-> detectedDevices,
               priorityDevices |-> priorityDevices,
               notifications |-> Newest20(notifications),
               systemStats |->
                   [esp32Active |-> Within(systemStats.esp32LastSeen, t, ActiveWindow),
                    picoActive  |-> Within(systemStats.picoLastSeen, t, ActiveWindow)]]]

\* what a handler of the socket of subscriber s does: socket.emit of one event
Replies(s, name, event) ==
    /\ res' = [op |-> name, status |-> 0]
    /\ emits' = <<event>>
    /\ sockets' = SendTo([sockets EXCEPT ![s].connected = TRUE], s, emits')
    /\ UNCHANGED <<detectedDevices, priorityDevices, notifications, systemStats, timers, now>>

Connect(s) ==
    /\ ~sockets[s].connected
    /\ Replies(s, "connection", InitialData(now))

Disconnect(s) ==
    /\ sockets[s].connected
    /\ res' = [op |-> "disconnect", status |-> 0]
    /\ emits' = <<>>
    /\ sockets' = Broadcast([sockets EXCEPT ![s].connected = FALSE], emits')
    /\ UNCHANGED <<detectedDevices, priorityDevices, notifications, systemStats, timers, now>>

RequestDevices(s) ==
    /\ sockets[s].connected
    /\ Replies(s, "requestDevices", [ev |-> "devicesUpdate", data |-> detectedDevices])

RequestNotifications(s) ==
    /\ sockets[s].connected
    /\ Replies(s, "requestNotifications",
               [ev |-> "notificationsUpdate", data |-> Newest20(notifications)])

RequestSystemStats(s) ==
    /\ sockets[s].connected
    /\ Replies(s, "requestSystemStats",
               [ev |-> "systemStatsUpdate",
                data |-> [esp32Active  |-> Within(systemStats.esp32LastSeen, now, ActiveWindow),
                          picoActive   |-> Within(systemStats.picoLastSeen, now, ActiveWindow),
                          totalDevices |-> Len(detectedDevices),
                          priorityDevices |-> Cardinality(priorityDevices)]])

----------------------------------------------------------------------------
(* The system: two devices reporting a signal strength, a viewer toggling   *)
(* priorities, the notifier, both timers.                                   *)

A1 == "AA:BB:CC:DD:EE:01"
A2 == "AA:BB:CC:DD:EE:02"

SeqsUpTo(S, n) == UNION {[1..k -> S] : k \in 0..n}

BodiesUpTo(readings, n) == {NotAList} \cup {ListBody(s) : s \in SeqsUpTo(readings, n)}

Bodies(readings) == BodiesUpTo(readings, MaxBatch)

Readings == {Reading(a, None, Some(-59)) : a \in {A1, A2}}
Flags == {"true", "false", "1"}
Steps == {60000, 120001}

Init ==
    /\ detectedDevices = <<>>
    /\ priorityDevices = {}
    /\ notifications = <<>>
    /\ systemStats = [esp32LastSeen |-> None, picoLastSeen |-> None, totalScans |-> 0]
    /\ timers = [sweep |-> SweepPeriod, health |-> HealthPeriod]
    /\ now = 0
    /\ res = [op |-> "start", status |-> 0]
    /\ emits = <<>>
    /\ sockets = [c \in Subscribers |-> [connected |-> FALSE, received |-> <<>>]]

Next ==
    \/ \E body \in Bodies(Readings) : DevicesPost(body)
    \/ \E a \in {A1, A2, Undefined}, f \in Flags : SetPriority(a, f)
    \/ SweepTick
    \/ \E d \in Steps : Advance(d, MaxTime)

Spec == Init /\ [][Next]_vars

----------------------------------------------------------------------------
(* The notification log near its cap: the notifier has posted LogFill      *)
(* events one millisecond apart, then posts at most one per millisecond;   *)
(* one device comes and goes, the viewer toggles its priority and clears   *)
(* the log, the sweep timer purges.  The clock moves in hops just over the *)
(* inline threshold and in one leap of the retention window.               *)

Hop == InlineThreshold + 1
LogStart == LogFill + 1
HopHorizon == LogStart + MaxHops * Hop
LeapHorizon == HopHorizon + RetentionWindow

InitLog ==
    /\ detectedDevices = <<>>
    /\ priorityDevices = {}
    /\ notifications = [i \in 1..LogFill |-> PostedNotification(A1, "conexion", LogFill + 1 - i)]
    /\ systemStats = [esp32LastSeen |-> Some(LogFill), picoLastSeen |-> None, totalScans |-> 0]
    /\ timers = [sweep |-> SweepPeriod, health |-> HealthPeriod]
    /\ now = LogStart
    /\ res = [op |-> "POST /api/notifications", status |-> 200]
    /\ emits = <<[ev |-> "notification", data |-> PostedNotification(A1, "conexion", LogFill)]>>
    /\ sockets = [c \in Subscribers |-> [connected |-> FALSE, received |-> <<>>]]

NextLog ==
    \/ \E body \in Bodies({Reading(A1, None, Some(-59))}) : DevicesPost(body)
    \/ \E f \in {"true", "false"} : SetPriority(A1, f)
    \/ systemStats.esp32LastSeen # Some(now) /\ NotificationsPost(A1, "conexion")
    \/ NotificationsDelete
    \/ SweepTick
    \/ Advance(Hop, HopHorizon)
    \/ Advance(RetentionWindow, LeapHorizon)

SpecLog == InitLog /\ [][NextLog]_vars

----------------------------------------------------------------------------
(* Distance resolution: one device, readings with every combination of a   *)
(* distance (none, 0, 3.0) and a signal strength (none, 0, -59); the       *)
(* viewer toggles its priority.                                            *)

Distances == {None, Some(0), Some(30)}
SignalStrengths == {None, Some(0), Some(-59)}
DistReadings == {Reading(A1, d, r) : d \in Distances, r \in SignalStrengths}
DistBodies == BodiesUpTo(DistReadings, MaxDistBatch)

NextDist ==
    \/ \E body \in DistBodies : DevicesPost(body)
    \/ \E f \in {"true", "false"} : SetPriority(A1, f)
    \/ Advance(Hop, Hop)

SpecDist == Init /\ [][NextDist]_vars

----------------------------------------------------------------------------
(* Address forms: a well-formed address, one that is too short, a reading  *)
(* with no address, a reading that is not an object, a body with no list.  *)

Malformed == "AA:BB"

AddrReadings == {Reading(a, None, Some(-59)) : a \in {A1, Malformed, Undefined}} \cup {NullReading}
AddrBodies == Bodies(AddrReadings)

NextAddr ==
    \/ \E body \in AddrBodies : DevicesPost(body)
    \/ \E a \in {A1, Empty}, f \in {"true", "false"} : SetPriority(a, f)

SpecAddr == Init /\ [][NextAddr]_vars

----------------------------------------------------------------------------
(* Letter case: the same hardware address written in upper and lower case. *)

A1Lower == "aa:bb:cc:dd:ee:01"

CaseBodies == Bodies({Reading(a, None, Some(-59)) : a \in {A1, A1Lower}})

NextCase ==
    \/ \E body \in CaseBodies : DevicesPost(body)
    \/ \E a \in {A1, A1Lower}, f \in {"true", "false"} : SetPriority(a, f)
    \/ Advance(Hop, Hop)

SpecCase == Init /\ [][NextCase]_vars

----------------------------------------------------------------------------
(* Producer health: both producers submit, the clock is read around the    *)
(* 60 s and 120 s windows, every surface that reports a producer is asked. *)

MaxPosted == 2

S1 == "s1"

Instants ==
    {ActiveWindow - 1000, ActiveWindow, ActiveWindow + 1000,
     HealthyWindow, HealthyWindow + 1000, HealthyWindow + HealthPeriod, SweepPeriod}

NextHealth ==
    \/ /\ Len(notifications) < MaxPosted
       /\ systemStats.esp32LastSeen # Some(now)
       /\ NotificationsPost(A1, "conexion")
    \/ DevicesPost(ListBody(<<>>))
    \/ DevicesGet
    \/ SystemStatsGet
    \/ StatusGet
    \/ HealthGet
    \/ Connect(S1)
    \/ RequestSystemStats(S1)
    \/ SweepTick
    \/ HealthTick
    \/ \E t \in Instants : t > now /\ Advance(t - now, SweepPeriod)

SpecHealth == Init /\ [][NextHealth]_vars

----------------------------------------------------------------------------
(* Subscribers: two viewers connect, disconnect and ask for data while the *)
(* producers, a priority change and a clear act on a long log.             *)

NextConnect ==
    \/ \E s \in Subscribers :
          \/ Connect(s)
          \/ Disconnect(s)
          \/ RequestDevices(s)
          \/ RequestNotifications(s)
    \/ \E body \in Bodies({Reading(A1, None, Some(-59))}) : DevicesPost(body)
    \/ SetPriority(A1, "true")
    \/ systemStats.esp32LastSeen # Some(now) /\ NotificationsPost(A1, "conexion")
    \/ NotificationsDelete
    \/ Advance(Hop, LogStart + Hop)

SpecConnect == InitLog /\ [][NextConnect]_vars

----------------------------------------------------------------------------
(* The sweep as the last resort: the scanner submits a few times and then  *)
(* falls silent; the clock keeps running and the sweep timer keeps firing. *)

LastSubmission == Hop

LiveHorizon == LastSubmission + SweepThreshold + SweepPeriod + 2 * Hop

NextLive ==
    \/ /\ now <= LastSubmission
       /\ \E a \in {A1, A2} : DevicesPost(ListBody(<<Reading(a, None, Some(-59))>>))
    \/ \E f \in {"true", "false"} : SetPriority(A1, f)
    \/ SweepTick
    \/ Advance(Hop, LiveHorizon)

\* setInterval fires the sweep once it is due, and time passes
SpecLive ==
    /\ Init
    /\ [][NextLive]_vars
    /\ WF_vars(SweepTick)
    /\ WF_vars(Advance(Hop, LiveHorizon))

----------------------------------------------------------------------------
(* Refreshing: the scanner submits at most once per clock reading, a       *)
(* device is seen near or far, a second device comes and goes.             *)

RefreshReadings ==
    {Reading(A1, Some(10), None), Reading(A1, Some(30), None), Reading(A2, Some(10), None)}

RefreshBodies == Bodies(RefreshReadings)

NextRefresh ==
    \/ /\ systemStats.picoLastSeen # Some(now)
       /\ \E body \in RefreshBodies : DevicesPost(body)
    \/ \E a \in {A1, A2} : SetPriority(a, "true")
    \/ Advance(Hop, MaxHops * Hop)

SpecRefresh == Init /\ [][NextRefresh]_vars

----------------------------------------------------------------------------
(* Steps of the handlers, as seen from the state before and after *)

\* reading i is the last one of the batch for its address
LastFor(devices, i) ==
    \A j \in (i + 1)..Len(devices) : devices[j].address # devices[i].address

\* the step is POST /api/devices with this body, accepted
Accepted(body) == body.isList /\ DevicesPost(body) /\ res'.status = 200

Records(m) == {m[i] : i \in 1..Len(m)}

Age(device, t) == t - GetTime(device.lastUpdated)

\* a POST /api/devices that was accepted: it counted a scan and answered 200
DevicesAccepted ==
    /\ systemStats'.totalScans = systemStats.totalScans + 1
    /\ res'.op = "POST /api/devices"
    /\ res'.status = 200

\* the records of the registry that the step removed
Removed == {r \in Records(detectedDevices) : r.address \notin MapKeys(detectedDevices')}

----------------------------------------------------------------------------
(* C1: in every reachable state the notification log holds at most 100     *)
(* entries, whatever mix of posted notifications, timeout notifications,   *)
(* clears and purges produced it.                                          *)

C1_LogAtMost100 == Len(notifications) <= MaxNotifications

\* a full log that has dropped its oldest entry and holds a timeout notification
C1_Witness ==
    /\ Len(notifications) = MaxNotifications
    /\ GetTime(notifications[MaxNotifications].received) > 1
    /\ \E i \in 1..MaxNotifications : notifications[i].source = "system_timeout"
    /\ \E i \in 1..MaxNotifications : GetTime(notifications[i].received) > LogStart

----------------------------------------------------------------------------
(* C2: when an accepted POST /api/devices finishes, no record of the       *)
(* registry has a last update more than 2 minutes older than the           *)
(* submission time (a record that was that old is gone, unless the batch   *)
(* itself refreshed it), and every record whose last update was within 2   *)
(* minutes is still there.                                                 *)

C2_StaleRemovedFreshKept ==
    [][DevicesAccepted =>
          /\ \A r \in Records(detectedDevices') : Age(r, now) <= InlineThreshold
          /\ \A r \in Records(detectedDevices) :
                Age(r, now) > InlineThreshold => r \notin Records(detectedDevices')
          /\ \A r \in Records(detectedDevices) :
                Age(r, now) <= InlineThreshold => r.address \in MapKeys(detectedDevices')
      ]_vars

\* an accepted submission has just removed a priority record of another address
C2_Witness ==
    /\ res.op = "POST /api/devices" /\ res.status = 200
    /\ systemStats.picoLastSeen = Some(now)
    /\ Len(emits) = 2
    /\ emits[1].ev = "notification"
    /\ emits[1].data.deviceAddress = A1
    /\ MapKeys(detectedDevices) = {A2}

----------------------------------------------------------------------------
(* C3: the inline eviction pass puts exactly one desconexion /             *)
(* system_timeout notification, with the record's address, at the head of  *)
(* the log for every priority-flagged record it removes, and nothing for a *)
(* record it removes that is not flagged.                                  *)

RemovedFlagged == {r \in Removed : Truthy(r.isPriority)}

C3_OneTimeoutPerFlaggedRemoval ==
    [][DevicesAccepted =>
          LET k == Cardinality(RemovedFlagged)
              keep == IF Len(notifications) + k > MaxNotifications
                      THEN MaxNotifications - k ELSE Len(notifications)
          IN  /\ Len(notifications') = k + keep
              /\ \A i \in 1..k :
                    /\ notifications'[i].eventType = "desconexion"
                    /\ notifications'[i].source = "system_timeout"
                    /\ GetTime(notifications'[i].received) = now
              /\ {notifications'[i].deviceAddress : i \in 1..k}
                    = {r.address : r \in RemovedFlagged}
              /\ SubSeq(notifications', k + 1, k + keep) = SubSeq(notifications, 1, keep)
      ]_vars

\* one pass has removed two flagged records: two notifications, newest first
C3_Witness ==
    /\ res.op = "POST /api/devices" /\ res.status = 200
    /\ res.totalDevices = 0
    /\ Len(notifications) >= 2
    /\ notifications[1].source = "system_timeout"
    /\ notifications[2].source = "system_timeout"
    /\ notifications[1].deviceAddress # notifications[2].deviceAddress
    /\ GetTime(notifications[2].received) = now

----------------------------------------------------------------------------
(* C6: a reading for an address that already has a record sets the         *)
(* record's last-update time to the submission time and leaves its         *)
(* wasInRange as it was, whatever distance or signal strength it carries.  *)

C6_RefreshKeepsWasInRange ==
    [][\A body \in DistBodies : Accepted(body) =>
          \A i \in 1..Len(body.devices) :
              LET a == body.devices[i].address
              IN  MapHas(detectedDevices, a) =>
                    /\ MapHas(detectedDevices', a)
                    /\ GetTime(MapGet(detectedDevices', a).lastUpdated) = now
                    /\ MapGet(detectedDevices', a).wasInRange
                          = MapGet(detectedDevices, a).wasInRange
      ]_vars

\* a record first seen far away, or with no distance, refreshed by a near reading
C6_Witness ==
    /\ res.op = "POST /api/devices" /\ res.status = 200
    /\ MapHas(detectedDevices, A1)
    /\ ~MapGet(detectedDevices, A1).wasInRange
    /\ MapGet(detectedDevices, A1).distance <= NearThreshold
    /\ GetTime(MapGet(detectedDevices, A1).lastUpdated) = now

----------------------------------------------------------------------------
(* C7: a reading with no distance and a signal strength of exactly 0 is    *)
(* stored with the sentinel distance -1.0.                                 *)

C7_ZeroSignalGivesSentinel ==
    [][\A body \in DistBodies : Accepted(body) =>
          \A i \in 1..Len(body.devices) :
              LET device == body.devices[i]
              IN  (LastFor(body.devices, i) /\ device.distance = None /\ device.rssi = Some(0))
                  => MapGet(detectedDevices', device.address).distance = Sentinel
      ]_vars

----------------------------------------------------------------------------
(* C8: a reading with an explicit distance is stored with that distance,   *)
(* 0 included, whatever its signal strength; a reading with neither is     *)
(* stored with the default 5.0.                                            *)

C8_ExplicitDistanceVerbatim ==
    [][\A body \in DistBodies : Accepted(body) =>
          \A i \in 1..Len(body.devices) :
              LET device == body.devices[i]
                  stored == MapGet(detectedDevices', device.address).distance
              IN  LastFor(body.devices, i) =>
                    /\ device.distance # None => stored = device.distance[1]
                    /\ (device.distance = None /\ device.rssi = None) => stored = DefaultDistance
      ]_vars

----------------------------------------------------------------------------
(* C9 as claimed: a batch that is not a list, or that holds a reading with *)
(* a missing or malformed address, is answered with a client error and     *)
(* changes nothing.                                                        *)

\* a 17-character address; only addresses of colon-separated pairs are used
WellFormed(address) == address # Undefined /\ Len(address) = 17

AllObjects(body) == \A i \in 1..Len(body.devices) : ~body.devices[i].isNull

MalformedBody(body) ==
    \/ ~body.isList
    \/ \E i \in 1..Len(body.devices) : ~WellFormed(body.devices[i].address)

C9_MalformedBatchRejected ==
    [][\A body \in AddrBodies :
          (AllObjects(body) /\ MalformedBody(body) /\ DevicesPost(body)) =>
          /\ res'.status = 400
          /\ UNCHANGED <<detectedDevices, notifications, priorityDevices, systemStats>>
      ]_vars

(* C9 as amended: only a body whose devices is not a list is answered 400  *)
(* and changes nothing; the address of a reading is not checked, so a list *)
(* of readings is accepted whatever their addresses, each reading is       *)
(* stored under the address it gives, the last-contact time is set and the *)
(* scan is counted.                                                        *)

C9_OnlyNonListRejected ==
    [][\A body \in AddrBodies : DevicesPost(body) =>
          /\ ~body.isList =>
                /\ res'.status = 400
                /\ UNCHANGED <<detectedDevices, notifications, priorityDevices, systemStats>>
          /\ (body.isList /\ AllObjects(body)) =>
                /\ res'.status = 200
                /\ systemStats'.picoLastSeen = Some(now)
                /\ systemStats'.totalScans = systemStats.totalScans + 1
                /\ \A i \in 1..Len(body.devices) :
                      MapHas(detectedDevices', body.devices[i].address)
      ]_vars

\* an accepted batch has stored a reading with a short address and one with none
C9_Witness ==
    /\ res.op = "POST /api/devices" /\ res.status = 200 /\ res.totalDevices = 2
    /\ systemStats.totalScans = 1
    /\ MapHas(detectedDevices, Malformed)
    /\ MapHas(detectedDevices, Undefined)
    /\ GetTime(MapGet(detectedDevices, Malformed).lastUpdated) = now
    /\ GetTime(MapGet(detectedDevices, Undefined).lastUpdated) = now

----------------------------------------------------------------------------
(* C10 as claimed: no two records of the registry have addresses that are  *)
(* equal when letter case is ignored.                                      *)

ToUpper(address) == IF address = A1Lower THEN A1 ELSE address

C10_OneRecordIgnoringCase ==
    \A i, j \in 1..Len(detectedDevices) :
        ToUpper(detectedDevices[i].address) = ToUpper(detectedDevices[j].address) => i = j

(* C10 as amended: the registry holds at most one record per address with  *)
(* addresses compared exactly; every reading of an accepted batch is kept  *)
(* under the address exactly as written, so two addresses that differ only *)
(* in letter case give two records.                                        *)

C10_OneRecordPerExactAddress ==
    [][/\ \A i, j \in 1..Len(detectedDevices') :
            detectedDevices'[i].address = detectedDevices'[j].address => i = j
       /\ \A body \in CaseBodies : Accepted(body) =>
            \A i \in 1..Len(body.devices) :
                \E r \in Records(detectedDevices') : r.address = body.devices[i].address
      ]_vars

\* the same address in upper and in lower case has two records
C10_Witness ==
    /\ res.op = "POST /api/devices" /\ res.status = 200
    /\ MapHas(detectedDevices, A1)
    /\ MapHas(detectedDevices, A1Lower)
    /\ Len(detectedDevices) = 2

----------------------------------------------------------------------------
(* C4: in every reachable state each record's priority flag is set exactly *)
(* when its address is in the priority index.                              *)

C4_FlagEqualsMembership ==
    \A r \in Records(detectedDevices) :
        Truthy(r.isPriority) <=> r.address \in priorityDevices

\* a record flagged by a toggle after it was created, another left unflagged
C4_Witness ==
    /\ res.op = "POST /api/set-priority" /\ res.status = 200
    /\ \E r \in Records(detectedDevices) :
          Truthy(r.isPriority) /\ r.address \in priorityDevices
    /\ \E r \in Records(detectedDevices) :
          ~Truthy(r.isPriority) /\ r.address \notin priorityDevices

----------------------------------------------------------------------------
(* C5: set-priority true for an address with no record answers 200 and     *)
(* puts the address in the index; the address leaves the index only by a   *)
(* set-priority false for it; a record created for an address of the index *)
(* is flagged from its creation.                                           *)

SetPriorityStep == now' = now /\ res'.op = "POST /api/set-priority" /\ Len(emits') = 1

C5_PriorityBeforeFirstSighting ==
    [][/\ \A a \in {A1, A2}, f \in Flags :
            (SetPriority(a, f) /\ Truthy(f) /\ ~MapHas(detectedDevices, a))
            => /\ res'.status = 200
               /\ a \in priorityDevices'
               /\ detectedDevices' = detectedDevices
       /\ \A a \in priorityDevices :
            a \notin priorityDevices' =>
                /\ SetPriorityStep
                /\ emits'[1].data.deviceAddress = a
                /\ ~Truthy(emits'[1].data.isPriority)
       /\ \A a \in priorityDevices :
            (~MapHas(detectedDevices, a) /\ MapHas(detectedDevices', a))
            => Truthy(MapGet(detectedDevices', a).isPriority)
      ]_vars

\* the first submission ever creates the record of an address marked before
C5_Witness ==
    /\ res.op = "POST /api/devices" /\ res.status = 200
    /\ systemStats.totalScans = 1
    /\ MapHas(detectedDevices, A1)
    /\ MapGet(detectedDevices, A1).isPriority = "true"
    /\ A1 \in priorityDevices

----------------------------------------------------------------------------
(* C11: every surface that reports a producer as active (GET /api/devices, *)
(* GET /api/system-stats, GET /api/status, GET /api/health, the initial    *)
(* data sent on connection, the system-stats updates) reports it active    *)
(* exactly when the producer has submitted at least once and less than     *)
(* 60 s have passed since its last contact.                                *)

\* the producer has submitted and its last contact is less than 60 s before t
ActiveAt(lastSeen, t) == lastSeen # None /\ t - lastSeen[1] < ActiveWindow

C11_ActiveOnEverySurface ==
    [][now' = now =>
        LET esp32 == ActiveAt(systemStats'.esp32LastSeen, now')
            picoW == ActiveAt(systemStats'.picoLastSeen, now')
        IN  /\ res'.op = "GET /api/devices" =>
                 /\ res'.systemStatus.esp32Active = esp32
                 /\ res'.systemStatus.picoActive = picoW
            /\ res'.op = "GET /api/system-stats" =>
                 /\ res'.systemHealth.esp32Active = esp32
                 /\ res'.systemHealth.picoActive = picoW
            /\ res'.op = "GET /api/status" =>
                 /\ res'.systemHealth.esp32 = esp32
                 /\ res'.systemHealth.picoW = picoW
            /\ res'.op = "GET /api/health" =>
                 /\ (res'.systemComponents.esp32 = "active") = esp32
                 /\ (res'.systemComponents.picoW = "active") = picoW
            /\ \A i \in DOMAIN emits' :
                 /\ emits'[i].ev = "initialData" =>
                      /\ emits'[i].data.systemStats.esp32Active = esp32
                      /\ emits'[i].data.systemStats.picoActive = picoW
                 /\ emits'[i].ev = "systemStatsUpdate" =>
                      /\ emits'[i].data.esp32Active = esp32
                      /\ emits'[i].data.picoActive = picoW
      ]_vars

----------------------------------------------------------------------------
(* C12: each time a subscriber connects it is sent exactly one initialData *)
(* message, sent to it alone, holding the whole registry, the whole        *)
(* priority index, the 20 newest log entries (all of them when fewer) and  *)
(* both producers' active flags as of that instant; a subscriber receives  *)
(* nothing that was emitted while it was not connected, on a first         *)
(* connection and on a reconnection alike.                                 *)

\* the first k entries of the log, or all of them when it holds fewer
FirstOrAll(log, k) == [i \in 1..(IF Len(log) < k THEN Len(log) ELSE k) |-> log[i]]

Connects(s) == ~sockets[s].connected /\ sockets'[s].connected

C12_OneInitialDataOnConnect ==
    [][\A s \in Subscribers :
         /\ Connects(s) =>
              /\ Len(sockets'[s].received) = 1
              /\ sockets'[s].received[1].ev = "initialData"
              /\ sockets'[s].received[1].data =
                     [devices |-> detectedDevices',
                      priorityDevices |-> priorityDevices',
                      notifications |-> FirstOrAll(notifications', 20),
                      systemStats |->
                          [esp32Active |-> ActiveAt(systemStats'.esp32LastSeen, now'),
                           picoActive  |-> ActiveAt(systemStats'.picoLastSeen, now')]]
              /\ \A c \in Subscribers \ {s} : sockets'[c].received = <<>>
              /\ UNCHANGED <<detectedDevices, priorityDevices, notifications, systemStats, now>>
         /\ ~sockets'[s].connected => sockets'[s].received = <<>>
         /\ now' = now =>
              \A i \in DOMAIN sockets'[s].received :
                  sockets'[s].received[i].ev = "initialData" => Connects(s)
      ]_vars

\* a subscriber that reconnects after a notification and a priority change were
\* broadcast is sent the 20 newest of a longer log; the other subscriber, connected
\* all along, is sent nothing
C12_Witness ==
    /\ res.op = "connection"
    /\ sockets[S1].connected /\ sockets[S1].received = emits
    /\ Len(emits) = 1 /\ emits[1].ev = "initialData"
    /\ Len(emits[1].data.notifications) = 20 /\ Len(notifications) > 20
    /\ GetTime(notifications[1].received) >= LogStart
    /\ emits[1].data.priorityDevices = {A1}
    /\ Len(emits[1].data.devices) = 1
    /\ emits[1].data.systemStats.picoActive /\ ~emits[1].data.systemStats.esp32Active
    /\ sockets["s2"].connected /\ sockets["s2"].received = <<>>

----------------------------------------------------------------------------
(* C13: every priority-flagged record that the periodic 5-minute sweep     *)
(* removes leaves a disconnection notification of origin system_timeout    *)
(* for its address in the log, as an inline eviction does.                 *)

\* a tick of the periodic sweep: its timer was re-armed
SweepStep == timers'.sweep # timers.sweep

C13_SweepNotifiesFlaggedRemoval ==
    [][SweepStep =>
          \A r \in RemovedFlagged :
              \E i \in DOMAIN notifications' :
                  /\ notifications'[i].deviceAddress = r.address
                  /\ notifications'[i].eventType = "desconexion"
                  /\ notifications'[i].source = "system_timeout"
                  /\ GetTime(notifications'[i].received) = now
      ]_vars

----------------------------------------------------------------------------
(* C14: an append to a log of 100 entries leaves the new entry at the head *)
(* followed by the 99 entries that were newest, in their order, the oldest *)
(* being dropped; in every reachable state the log runs from the newest    *)
(* receipt time at the head to the oldest at the tail.                     *)

NewestFirst(log) ==
    \A i \in 1..(Len(log) - 1) : GetTime(log[i].received) >= GetTime(log[i + 1].received)

\* a POST /api/notifications: the notifier's last contact becomes this instant
NotificationsPosted ==
    /\ now' = now
    /\ res'.op = "POST /api/notifications"
    /\ systemStats.esp32LastSeen # Some(now)
    /\ systemStats'.esp32LastSeen = Some(now)

C14_AppendAtHeadDropsOldest ==
  /\ NewestFirst(notifications)
  /\
    [][/\ notifications' # notifications => NewestFirst(notifications')
       /\ (Len(notifications) = MaxNotifications /\ NotificationsPosted) =>
             /\ Len(notifications') = MaxNotifications
             /\ notifications'[1].source = "esp32"
             /\ GetTime(notifications'[1].received) = now
             /\ \A i \in 2..MaxNotifications : notifications'[i] = notifications[i - 1]
       /\ (/\ Len(notifications) = MaxNotifications
           /\ DevicesAccepted
           /\ Cardinality(RemovedFlagged) = 1) =>
             /\ Len(notifications') = MaxNotifications
             /\ notifications'[1].source = "system_timeout"
             /\ GetTime(notifications'[1].received) = now
             /\ \A i \in 2..MaxNotifications : notifications'[i] = notifications[i - 1]
      ]_vars

\* the notifier has just appended to a full log that already held a timeout
\* notification: the entry received at 1 ms is gone
C14_Witness ==
    /\ res.op = "POST /api/notifications"
    /\ Len(notifications) = MaxNotifications
    /\ GetTime(notifications[1].received) = now
    /\ notifications[2].source = "system_timeout"
    /\ GetTime(notifications[2].received) < now
    /\ GetTime(notifications[MaxNotifications].received) >= 2

----------------------------------------------------------------------------
(* C15: the priority index changes only in POST /api/set-priority: device  *)
(* submissions, inline eviction, the sweep, the purge, a posted            *)
(* notification and a clear leave it as it was. So an address of the       *)
(* index is still in it after its record is removed, and a record created  *)
(* again for it is flagged.                                                *)

C15_IndexChangesOnlyBySetPriority ==
    [][/\ priorityDevices' # priorityDevices =>
             \E f \in {"true", "false"} : SetPriority(A1, f)
       /\ (\/ res'.op \in {"POST /api/devices", "POST /api/notifications",
                           "DELETE /api/notifications", "sweep tick"}
           \/ now' # now) =>
             priorityDevices' = priorityDevices
       /\ \A r \in Removed :
             r.address \in priorityDevices => r.address \in priorityDevices'
       /\ \A a \in priorityDevices' :
             (~MapHas(detectedDevices, a) /\ MapHas(detectedDevices', a))
             => MapGet(detectedDevices', a).isPriority = "true"
      ]_vars

\* the record of a marked address has been removed and notified, the log was
\* appended to, and the address is still in the index
C15_Witness ==
    /\ A1 \in priorityDevices
    /\ ~MapHas(detectedDevices, A1)
    /\ \E i \in DOMAIN notifications :
          /\ notifications[i].source = "system_timeout"
          /\ notifications[i].deviceAddress = A1
    /\ res.op = "POST /api/notifications"

----------------------------------------------------------------------------
(* C16: when POST /api/devices creates the record of a new address, the    *)
(* record's wasInRange is true exactly when the distance stored in that    *)
(* same record is at most 2.0.                                             *)

\* the only reading of the batch for its address
OnlyFor(devices, i) == \A j \in 1..Len(devices) : devices[j].address = devices[i].address => j = i

C16_WasInRangeMatchesStoredDistance ==
    [][\A body \in DistBodies : Accepted(body) =>
          \A i \in 1..Len(body.devices) :
              LET address == body.devices[i].address
                  created == MapGet(detectedDevices', address)
              IN  (OnlyFor(body.devices, i) /\ ~MapHas(detectedDevices, address))
                  => created.wasInRange = (created.distance <= NearThreshold)
      ]_vars

----------------------------------------------------------------------------
(* C17: when the inline eviction of a POST /api/devices removes a          *)
(* priority-flagged record, its disconnection notification is in the log   *)
(* and is broadcast as a 'notification' event before the 'devicesUpdate'   *)
(* snapshot of that submission, and the snapshot is the registry after the *)
(* removal: it does not hold the removed record.                           *)

C17_NotificationBeforeSnapshot ==
    [][DevicesAccepted =>
          LET k == Cardinality(RemovedFlagged)
          IN  /\ Len(emits') = k + 1
              /\ \A i \in 1..k :
                    /\ emits'[i].ev = "notification"
                    /\ emits'[i].data.source = "system_timeout"
                    /\ emits'[i].data.eventType = "desconexion"
                    /\ \E j \in 1..k : notifications'[j] = emits'[i].data
              /\ {emits'[i].data.deviceAddress : i \in 1..k} = {r.address : r \in RemovedFlagged}
              /\ emits'[k + 1].ev = "devicesUpdate"
              /\ emits'[k + 1].data = detectedDevices'
              /\ \A r \in Removed : r.address \notin MapKeys(emits'[k + 1].data)
      ]_vars

\* a submission that refreshed one record and evicted the flagged record of the
\* other address: the notification comes first, the snapshot holds the survivor
C17_Witness ==
    /\ res.op = "POST /api/devices" /\ res.status = 200
    /\ Len(emits) = 2
    /\ emits[1].ev = "notification"
    /\ emits[1].data.deviceAddress = A1
    /\ notifications[1] = emits[1].data
    /\ emits[2].ev = "devicesUpdate"
    /\ MapKeys(emits[2].data) = {A2}
    /\ ~MapHas(detectedDevices, A1)

----------------------------------------------------------------------------
(* C18: a record that no producer refreshes is eventually removed even if  *)
(* no further submission arrives: after every tick of the sweep the        *)
(* registry holds no record whose last update is more than 5 minutes older *)
(* than the tick, and the sweep timer keeps firing, so every record that   *)
(* is not refreshed eventually leaves the registry.                        *)

\* the registry holds the record of address a as last updated at time t
HoldsSince(a, t) ==
    /\ MapHas(detectedDevices, a)
    /\ GetTime(MapGet(detectedDevices, a).lastUpdated) = t

C18_UnrefreshedRecordLeaves ==
    /\ [][SweepStep =>
             \A r \in Records(detectedDevices') : Age(r, now) <= SweepThreshold]_vars
    /\ \A a \in {A1, A2} : \A t \in {0, LastSubmission} :
           HoldsSince(a, t) ~> ~HoldsSince(a, t)

\* the only submission ever made created a record; much later a sweep tick has
\* left the registry empty
C18_Witness ==
    /\ res.op = "sweep tick"
    /\ systemStats.totalScans = 1
    /\ systemStats.picoLastSeen = Some(LastSubmission)
    /\ now - LastSubmission > SweepThreshold
    /\ detectedDevices = <<>>

----------------------------------------------------------------------------
(* C19: on every tick of the 1-minute health monitor a systemAlert is      *)
(* broadcast exactly when at least one producer is unhealthy, that is has  *)
(* never submitted or had its last contact 120 s or more before the tick;  *)
(* the alert is emitted on every tick at which that holds and on no tick   *)
(* at which both producers are healthy.                                    *)

\* a tick of the health monitor: its timer was re-armed
HealthStep == timers'.health # timers.health

UnhealthyAt(lastSeen, t) == lastSeen = None \/ t - lastSeen[1] >= HealthyWindow

C19_AlertIffUnhealthy ==
    [][HealthStep =>
          /\ (\/ UnhealthyAt(systemStats.esp32LastSeen, now)
              \/ UnhealthyAt(systemStats.picoLastSeen, now))
             => /\ Len(emits') = 1
                /\ emits'[1].ev = "systemAlert"
          /\ (/\ ~UnhealthyAt(systemStats.esp32LastSeen, now)
              /\ ~UnhealthyAt(systemStats.picoLastSeen, now))
             => emits' = <<>>
          /\ \A s \in Subscribers : sockets[s].connected => sockets'[s].received = emits'
          /\ UNCHANGED <<detectedDevices, priorityDevices, notifications, systemStats, now>>
      ]_vars

\* a tick exactly 120 s after the notifier's only contact, the scanner being
\* healthy: the alert is broadcast and reaches the connected subscriber
C19_Witness ==
    /\ res.op = "health tick"
    /\ systemStats.esp32LastSeen = Some(0)
    /\ now = HealthyWindow
    /\ systemStats.picoLastSeen # None
    /\ now - systemStats.picoLastSeen[1] < HealthyWindow
    /\ Len(emits) = 1
    /\ emits[1].ev = "systemAlert"
    /\ emits[1].data = [esp32 |-> FALSE, picoW |-> TRUE]
    /\ sockets[S1].connected /\ sockets[S1].received = emits

----------------------------------------------------------------------------
(* C20: a purge tick removes exactly the log entries received more than    *)
(* 2 hours before the tick (an entry received exactly 2 hours before is    *)
(* kept), keeps the others in their order, and broadcasts the newest 20 of *)
(* the purged log as 'notificationsUpdate' exactly when it removed an      *)
(* entry.                                                                  *)

C20_PurgeRemovesOlderThanTwoHours ==
    [][SweepStep =>
          /\ notifications' =
                SelectSeq(notifications,
                          LAMBDA n : now - GetTime(n.received) <= RetentionWindow)
          /\ (Len(notifications') < Len(notifications))
             <=> \E i \in DOMAIN emits' :
                    /\ emits'[i].ev = "notificationsUpdate"
                    /\ emits'[i].data = FirstOrAll(notifications', 20)
      ]_vars

----------------------------------------------------------------------------
(* C21: a record created or refreshed by a reading of a POST /api/devices  *)
(* batch is not removed by the eviction pass of that same call and gets no *)
(* disconnection notification in that call, also when its last update     *)
(* before the call was more than 2 minutes old; so every address of an     *)
(* accepted batch has a record in the registry when the handler finishes   *)
(* and in the 'devicesUpdate' snapshot it emits.                           *)

C21_BatchRecordsSurviveEviction ==
    [][\A body \in RefreshBodies : Accepted(body) =>
          \A i \in 1..Len(body.devices) :
              LET address == body.devices[i].address
                  added == Len(emits') - 1
              IN  /\ MapHas(detectedDevices', address)
                  /\ GetTime(MapGet(detectedDevices', address).lastUpdated) = now
                  /\ emits'[Len(emits')].ev = "devicesUpdate"
                  /\ address \in MapKeys(emits'[Len(emits')].data)
                  /\ \A j \in 1..added :
                        /\ emits'[j].ev = "notification"
                        /\ emits'[j].data.deviceAddress # address
                        /\ notifications'[j].deviceAddress # address
                  /\ Len(notifications') <= Len(notifications) + added
      ]_vars

\* the second submission, one hop after the first: the record created near is
\* refreshed with a far reading when it was more than 2 minutes old, and kept;
\* the flagged record of the other address, as old, is removed and notified
C21_Witness ==
    /\ res.op = "POST /api/devices" /\ res.status = 200
    /\ systemStats.totalScans = 2
    /\ now = Hop
    /\ MapKeys(detectedDevices) = {A1}
    /\ MapGet(detectedDevices, A1).distance = 30
    /\ MapGet(detectedDevices, A1).wasInRange
    /\ MapGet(detectedDevices, A1).isPriority = "true"
    /\ GetTime(MapGet(detectedDevices, A1).lastUpdated) = now
    /\ Len(emits) = 2
    /\ emits[1].ev = "notification" /\ emits[1].data.deviceAddress = A2
    /\ MapKeys(emits[2].data) = {A1}

====
